---------------------------- MODULE Spec2Model ----------------------------
(***************************************************************************)
(* DataPreprocessor of src/data/preprocessing.py as a state machine.       *)
(*                                                                         *)
(* A table (pandas DataFrame) is a record                                  *)
(*    [cols  : sequence of column names, in column order,                  *)
(*     dtype : column name -> "object" | "float",                          *)
(*     index : sequence of row labels,                                     *)
(*     rows  : sequence of rows, each a function column name -> cell].     *)
(* A cell is a record [k, n, d]:                                           *)
(*    k = "num"  : the rational number n/d (d > 0, lowest terms),          *)
(*    k = "str"  : the string Alphabet[n],                                 *)
(*    k = "nan"  : a missing value (NaN / None),                           *)
(*    k = "sqrt" : the real number sgn(n) * sqrt(|n|/d), which is what a   *)
(*                 standardised value (x - mean)/std is.                   *)
(* Arithmetic is exact (rationals), where the program computes in IEEE     *)
(* doubles.                                                                *)
(***************************************************************************)
EXTENDS Integers, Sequences, FiniteSets, TLC

VARIABLES
    ordinal_encoder,  \* self.ordinal_encoder
    scaler,           \* self.scaler
    df,               \* the table the caller holds and passes to every call
    pc,               \* control point of the call in progress ("idle": none)
    method,           \* the public method that was called
    is_training,      \* preprocess_data's flag
    scale_features,   \* prepare_for_training's flag
    target_col,       \* prepare_for_training's target column
    df_processed,     \* the local df_processed
    outcome,          \* "none" | "returned" | "raised"
    result,           \* the table a call returned
    X,                \* prepare_for_training's X
    y,                \* prepare_for_training's y
    column,           \* remove_outliers_iqr's column, when called directly
    n_neighbors,      \* knn_impute's n_neighbors, when called directly
    trace,            \* history: the stages the call in progress has executed
    fits              \* history: scaler fits of the call in progress

vars == <<ordinal_encoder, scaler, df, pc, method, is_training, scale_features,
          target_col, df_processed, outcome, result, X, y, column, n_neighbors,
          trace, fits>>

-----------------------------------------------------------------------------
(* Bounds of the model *)

\* rows of a table passed to the pipeline
MaxRows == 4
\* rows of a table passed to knn_impute directly
MaxRowsImpute == 3
\* rows of a table passed to remove_outliers_iqr directly
MaxRowsOutliers == 4
\* rows of a table passed to create_features directly
MaxRowsFeatures == 2

-----------------------------------------------------------------------------
(* Cells and exact arithmetic *)

\* The strings of the model, in lexicographic order: a string is its position.
Alphabet == <<"a", "b", "nan">>

StrOf(s) == CHOOSE i \in 1..Len(Alphabet) : Alphabet[i] = s

Abs(a) == IF a < 0 THEN -a ELSE a

RECURSIVE GCD(_, _)
GCD(a, b) == IF b = 0 THEN a ELSE GCD(b, a % b)

NaN == [k |-> "nan", n |-> 0, d |-> 1]

Str(s) == [k |-> "str", n |-> StrOf(s), d |-> 1]

\* the rational a/b, b # 0, in lowest terms
Rat(a, b) ==
    LET g == GCD(Abs(a), Abs(b))
        s == IF b < 0 THEN -1 ELSE 1
    IN  [k |-> "num", n |-> (s * a) \div g, d |-> (s * b) \div g]

Num(a) == [k |-> "num", n |-> a, d |-> 1]

IsNaN(c) == c.k = "nan"

\* float arithmetic: NaN propagates
Add(a, b) == IF IsNaN(a) \/ IsNaN(b) THEN NaN ELSE Rat(a.n * b.d + b.n * a.d, a.d * b.d)

Sub(a, b) == IF IsNaN(a) \/ IsNaN(b) THEN NaN ELSE Rat(a.n * b.d - b.n * a.d, a.d * b.d)

Mul(a, b) == IF IsNaN(a) \/ IsNaN(b) THEN NaN ELSE Rat(a.n * b.n, a.d * b.d)

\* comparisons of floats: any comparison with NaN is False
Le(a, b) == ~IsNaN(a) /\ ~IsNaN(b) /\ a.n * b.d <= b.n * a.d

Ge(a, b) == Le(b, a)

Lt(a, b) == ~IsNaN(a) /\ ~IsNaN(b) /\ a.n * b.d < b.n * a.d

RECURSIVE SumSeq(_)
SumSeq(s) == IF s = <<>> THEN Num(0) ELSE Add(Head(s), SumSeq(Tail(s)))

RECURSIVE SetToSeq(_)
SetToSeq(S) == IF S = {} THEN <<>>
               ELSE LET x == CHOOSE x \in S : TRUE IN <<x>> \o SetToSeq(S \ {x})

Range(s) == {s[i] : i \in DOMAIN s}

SelectIdx(s, keep) ==
    LET F[i \in 0..Len(s)] ==
            IF i = 0 THEN <<>>
            ELSE IF i \in keep THEN Append(F[i - 1], s[i]) ELSE F[i - 1]
    IN  F[Len(s)]

-----------------------------------------------------------------------------
(* Tables *)

NRows(t) == Len(t.rows)

ColSet(t) == Range(t.cols)

\* the cells of column c, in row order
Column(t, c) == [i \in 1..NRows(t) |-> t.rows[i][c]]

\* pandas' RangeIndex(n)
RangeIndex(n) == [i \in 1..n |-> i - 1]

EmptyTable == [cols |-> <<>>, dtype |-> <<>>, index |-> <<>>, rows |-> <<>>]

EmptySeries == [name |-> "", index |-> <<>>, values |-> <<>>]

\* df.drop(columns=drop): the other columns, in order
DropColumns(t, drop) ==
    LET keep == ColSet(t) \ drop
    IN  [cols  |-> SelectSeq(t.cols, LAMBDA c : c \notin drop),
         dtype |-> [c \in keep |-> t.dtype[c]],
         index |-> t.index,
         rows  |-> [i \in 1..NRows(t) |-> [c \in keep |-> t.rows[i][c]]]]

\* df[c] = values (dtype dt): replaces the column in place, or appends a new one
SetColumn(t, c, values, dt) ==
    LET cs == ColSet(t) \cup {c}
    IN  [cols  |-> IF c \in ColSet(t) THEN t.cols ELSE Append(t.cols, c),
         dtype |-> [x \in cs |-> IF x = c THEN dt ELSE t.dtype[x]],
         index |-> t.index,
         rows  |-> [i \in 1..NRows(t) |->
                       [x \in cs |-> IF x = c THEN values[i] ELSE t.rows[i][x]]]]

\* df[mask]: the rows whose position is in keep, with their labels
FilterRows(t, keep) ==
    [cols  |-> t.cols,
     dtype |-> t.dtype,
     index |-> SelectIdx(t.index, keep),
     rows  |-> SelectIdx(t.rows, keep)]

\* df.select_dtypes(include='object').columns
ObjectCols(t) == SelectSeq(t.cols, LAMBDA c : t.dtype[c] = "object")

-----------------------------------------------------------------------------
(* remove_outliers_iqr *)

\* Series.quantile(qn/qd): linear interpolation between the two order
\* statistics around position (n-1)*qn/qd of the non-missing values; NaN when
\* there is none.
Quantile(values, qn, qd) ==
    LET valid  == SelectSeq(values, LAMBDA c : ~IsNaN(c))
        sorted == SortSeq(valid, Lt)
        n      == Len(sorted)
        h      == (n - 1) * qn
        lo     == h \div qd
        fr     == h % qd
    IN  IF n = 0 THEN NaN
        ELSE IF fr = 0 THEN sorted[lo + 1]
        ELSE Add(sorted[lo + 1],
                 Mul(Rat(fr, qd), Sub(sorted[lo + 2], sorted[lo + 1])))

\* Q1 - 1.5 * IQR
LowerBound(values) ==
    LET Q1 == Quantile(values, 1, 4)
        Q3 == Quantile(values, 3, 4)
    IN  Sub(Q1, Mul(Rat(3, 2), Sub(Q3, Q1)))

\* Q3 + 1.5 * IQR
UpperBound(values) ==
    LET Q1 == Quantile(values, 1, 4)
        Q3 == Quantile(values, 3, 4)
    IN  Add(Q3, Mul(Rat(3, 2), Sub(Q3, Q1)))

\* df[col] of an absent column is a KeyError, the quantile of strings a TypeError
RemoveOutliersRaises(t, col) == col \notin ColSet(t) \/ t.dtype[col] = "object"

\* mutant: the bounds themselves are excluded
RemoveOutliersIqrStrict(t, col) ==
    LET v == Column(t, col)
    IN  FilterRows(t, {i \in 1..NRows(t) :
                          Lt(LowerBound(v), v[i]) /\ Lt(v[i], UpperBound(v))})

RemoveOutliersIqr(t, col) ==
    LET v == Column(t, col)
        lower_bound == LowerBound(v)
        upper_bound == UpperBound(v)
    IN  FilterRows(t, {i \in 1..NRows(t) :
                          Ge(v[i], lower_bound) /\ Le(v[i], upper_bound)})

-----------------------------------------------------------------------------
(* create_features *)

CurrentYear == 2024

\* the columns create_features reads and drops
SourceCols == {"engine", "transmission", "int_col", "ext_col", "model_year"}

\* the columns create_features writes
ComposedCols == {"engine_transmission", "int_ext_color", "car_age"}

\* A missing source column is a KeyError.  The product of two string columns
\* and 2024 minus a string are TypeErrors.  (A string column times a numeric
\* one repeats the strings; no table of this model has such a pair.)
CreateFeaturesRaises(t) ==
    \/ ~(SourceCols \subseteq ColSet(t))
    \/ t.dtype["engine"] = "object" \/ t.dtype["transmission"] = "object"
    \/ t.dtype["int_col"] = "object" \/ t.dtype["ext_col"] = "object"
    \/ t.dtype["model_year"] = "object"

\* mutant: model_year is left in the table
CreateFeaturesKeepYear(t) ==
    LET n  == NRows(t)
        t1 == SetColumn(t, "engine_transmission",
                        [i \in 1..n |-> Mul(t.rows[i]["engine"], t.rows[i]["transmission"])],
                        "float")
        t2 == SetColumn(t1, "int_ext_color",
                        [i \in 1..n |-> Mul(t1.rows[i]["int_col"], t1.rows[i]["ext_col"])],
                        "float")
        t3 == DropColumns(t2, {"engine", "transmission", "int_col", "ext_col"})
    IN  SetColumn(t3, "car_age",
                  [i \in 1..n |-> Sub(Num(CurrentYear), t3.rows[i]["model_year"])],
                  "float")

CreateFeatures(t) ==
    LET n  == NRows(t)
        t1 == SetColumn(t, "engine_transmission",
                        [i \in 1..n |-> Mul(t.rows[i]["engine"], t.rows[i]["transmission"])],
                        "float")
        t2 == SetColumn(t1, "int_ext_color",
                        [i \in 1..n |-> Mul(t1.rows[i]["int_col"], t1.rows[i]["ext_col"])],
                        "float")
        t3 == DropColumns(t2, {"engine", "transmission", "int_col", "ext_col"})
        t4 == SetColumn(t3, "car_age",
                        [i \in 1..n |-> Sub(Num(CurrentYear), t3.rows[i]["model_year"])],
                        "float")
    IN  DropColumns(t4, {"model_year"})

-----------------------------------------------------------------------------
(* knn_impute *)

\* the categories of astype('category'): the distinct non-missing values
\* (strings by position in Alphabet, hence sorted)
Categories(values) == {values[i].n : i \in {j \in DOMAIN values : values[j].k = "str"}}

\* .cat.codes: the rank of the value among the categories, -1 for a missing one
CatCode(cats, c) ==
    IF IsNaN(c) THEN Num(-1) ELSE Num(Cardinality({x \in cats : x < c.n}))

\* dict(enumerate(categories)) applied by Series.map: the category of rank
\* code, and NaN for a code that is no key of the dict
MapCode(cats, code) ==
    IF \E x \in cats : Cardinality({z \in cats : z < x}) = code
    THEN [k |-> "str", n |-> CHOOSE x \in cats : Cardinality({z \in cats : z < x}) = code,
          d |-> 1]
    ELSE NaN

\* round() to the nearest integer, halves to the even one; then astype(int)
RoundInt(c) ==
    LET fl == c.n \div c.d
        r2 == 2 * (c.n - fl * c.d)
    IN  IF r2 < c.d THEN fl
        ELSE IF r2 > c.d THEN fl + 1
        ELSE IF fl % 2 = 0 THEN fl ELSE fl + 1

\* lines 36-40: the copy with every object column replaced by its codes
EncodeForKnn(t) ==
    [cols  |-> t.cols,
     dtype |-> [c \in ColSet(t) |-> "float"],
     index |-> t.index,
     rows  |-> [i \in 1..NRows(t) |->
                   [c \in ColSet(t) |->
                       IF t.dtype[c] = "object"
                       THEN CatCode(Categories(Column(t, c)), t.rows[i][c])
                       ELSE t.rows[i][c]]]]

\* sklearn's nan_euclidean distance, squared: over the coordinates present in
\* both rows, scaled by (number of columns / number of such coordinates); NaN
\* when the rows share no coordinate
Dist2(m, i, j) ==
    LET both == {c \in ColSet(m) : ~IsNaN(m.rows[i][c]) /\ ~IsNaN(m.rows[j][c])}
        sq   == [k \in 1..Cardinality(both) |->
                    LET c == SetToSeq(both)[k]
                        e == Sub(m.rows[i][c], m.rows[j][c])
                    IN  Mul(e, e)]
    IN  IF both = {} THEN NaN
        ELSE Mul(Rat(Len(m.cols), Cardinality(both)), SumSeq(sq))

\* a is at least as near as b; NaN distances sort last
NoFarther(a, b) == IsNaN(b) \/ Le(a, b)

Mean(m, c, S) ==
    Mul(Rat(1, Cardinality(S)), SumSeq([k \in 1..Cardinality(S) |-> m.rows[SetToSeq(S)[k]][c]]))

Min(a, b) == IF a < b THEN a ELSE b

\* KNNImputer: the values cell (i, c) of m, missing, may be given.  The donors
\* are the rows that have column c.  If no donor shares a coordinate with row
\* i the value is the column's mean; otherwise it is the mean over the
\* min(k, #donors) nearest donors.  Which of several equally distant donors
\* are taken is numpy's argpartition's choice, and whether a taken donor at
\* NaN distance counts in the mean is the scikit-learn version's: every such
\* choice is an outcome.
ImputedValues(m, k, i, c) ==
    LET donors == {j \in 1..NRows(m) : ~IsNaN(m.rows[j][c])}
        near   == {j \in donors : ~IsNaN(Dist2(m, i, j))}
        size   == Min(k, Cardinality(donors))
        picks  == {S \in SUBSET donors :
                      /\ Cardinality(S) = size
                      /\ \A a \in S : \A b \in donors \ S :
                            NoFarther(Dist2(m, i, a), Dist2(m, i, b))}
    IN  IF near = {} THEN {Mean(m, c, donors)}
        ELSE {Mean(m, c, S \cap near) : S \in picks} \cup {Mean(m, c, S) : S \in picks}

\* the outcomes of one cell
CellOutcomes(m, k, i, c) ==
    IF IsNaN(m.rows[i][c]) THEN ImputedValues(m, k, i, c) ELSE {m.rows[i][c]}

\* the outcomes of row i, as sequences of cells in column order
RowOutcomes(m, k, i) ==
    LET F[j \in 0..Len(m.cols)] ==
            IF j = 0 THEN {<<>>}
            ELSE {Append(p, v) : p \in F[j - 1], v \in CellOutcomes(m, k, i, m.cols[j])}
    IN  F[Len(m.cols)]

\* the outcomes of fit_transform, as sequences of such rows
MatrixOutcomes(m, k) ==
    LET G[i \in 0..NRows(m)] ==
            IF i = 0 THEN {<<>>}
            ELSE {Append(p, r) : p \in G[i - 1], r \in RowOutcomes(m, k, i)}
    IN  G[NRows(m)]

ColPos(t, c) == CHOOSE j \in 1..Len(t.cols) : t.cols[j] = c

\* check_array refuses a matrix without rows or columns.  KNNImputer leaves
\* out a column that has no value at all, and pd.DataFrame(..., columns=...)
\* then refuses the narrower matrix (ValueError).
KnnImputeRaises(t) ==
    \/ NRows(t) = 0
    \/ t.cols = <<>>
    \/ \E c \in ColSet(t) : t.dtype[c] = "float" /\ \A i \in 1..NRows(t) : IsNaN(t.rows[i][c])

\* lines 44-47: pd.DataFrame(matrix, columns=df_encoded.columns), new RangeIndex
ImputedFrame(t, matrix) ==
    [cols  |-> t.cols,
     dtype |-> [c \in ColSet(t) |-> "float"],
     index |-> RangeIndex(NRows(t)),
     rows  |-> [i \in 1..NRows(t) |-> [c \in ColSet(t) |-> matrix[i][ColPos(t, c)]]]]

\* lines 50-53: the codes of every object column of df mapped back to its
\* categories.  A column in which every cell is missing has no category, and
\* the dtype of its all-NaN result is the pandas version's: "object" or "float".
RevertCodes(t, imputed) ==
    LET cats(c) == Categories(Column(t, c))
        fixed   == {c \in ColSet(t) : t.dtype[c] = "float" \/ cats(c) # {}}
    IN  {[cols  |-> imputed.cols,
          dtype |-> [c \in ColSet(t) |-> IF c \in fixed THEN t.dtype[c] ELSE dt[c]],
          index |-> imputed.index,
          rows  |-> [i \in 1..NRows(t) |->
                        [c \in ColSet(t) |->
                            IF t.dtype[c] = "object"
                            THEN MapCode(cats(c), RoundInt(imputed.rows[i][c]))
                            ELSE imputed.rows[i][c]]]]
         : dt \in [ColSet(t) \ fixed -> {"object", "float"}]}

\* knn_impute(df, n_neighbors): the tables it may return
KnnImpute(t, k) ==
    LET df_encoded == EncodeForKnn(t)
    IN  UNION {RevertCodes(t, ImputedFrame(df_encoded, matrix)) :
                  matrix \in MatrixOutcomes(df_encoded, k)}

-----------------------------------------------------------------------------
(* The ordinal encoder *)

UnknownValue == -1

\* line 21: OrdinalEncoder(handle_unknown='use_encoded_value', unknown_value=-1),
\* not fitted
FallbackEncoder ==
    [fitted |-> FALSE, categories |-> <<>>,
     handle_unknown |-> "use_encoded_value", unknown_value |-> UnknownValue]

\* an encoder fitted on columns whose sets of strings are cats[1], cats[2], ...
FittedEncoder(cats) ==
    [fitted |-> TRUE, categories |-> cats,
     handle_unknown |-> "use_encoded_value", unknown_value |-> UnknownValue]

\* astype(str): a missing cell becomes the string "nan"
AsStr(c) == IF IsNaN(c) THEN Str("nan") ELSE c

\* transform of an unfitted encoder is a NotFittedError, of a table with another
\* number of columns than the fit saw a ValueError, and of an unseen value
\* under handle_unknown='error' a ValueError
TransformRaises(enc, t, cat_cols) ==
    \/ ~enc.fitted
    \/ Len(cat_cols) # Len(enc.categories)
    \/ /\ enc.handle_unknown = "error"
       /\ \E j \in 1..Len(cat_cols) : \E i \in 1..NRows(t) :
             AsStr(t.rows[i][cat_cols[j]]).n \notin enc.categories[j]

\* mutant: an unseen value gets the code after the last category
OrdinalCodeNext(enc, j, c) ==
    IF c.n \in enc.categories[j]
    THEN Num(Cardinality({x \in enc.categories[j] : x < c.n}))
    ELSE Num(Cardinality(enc.categories[j]))

\* the code of string c in the j-th fitted column: its rank among the
\* categories, unknown_value when it is none of them
OrdinalCode(enc, j, c) ==
    IF c.n \in enc.categories[j]
    THEN Num(Cardinality({x \in enc.categories[j] : x < c.n}))
    ELSE Num(enc.unknown_value)

\* line 125: df[cat_cols] = encoder.transform(df[cat_cols].astype(str))
EncodeColumns(enc, t, cat_cols) ==
    LET cats == Range(cat_cols)
    IN  [cols  |-> t.cols,
         dtype |-> [c \in ColSet(t) |-> IF c \in cats THEN "float" ELSE t.dtype[c]],
         index |-> t.index,
         rows  |-> [i \in 1..NRows(t) |->
                       [c \in ColSet(t) |->
                           IF c \in cats
                           THEN OrdinalCode(enc, ColPos([cols |-> cat_cols], c),
                                            AsStr(t.rows[i][c]))
                           ELSE t.rows[i][c]]]]

\* mutant: the encoder is fitted again on the table it transforms
EncoderAfterRefit(enc, t, cat_cols) ==
    [enc EXCEPT !.fitted = TRUE,
                !.categories = [j \in 1..Len(cat_cols) |->
                                   {AsStr(t.rows[i][cat_cols[j]]).n : i \in 1..NRows(t)}]]

\* the encoder after transform: transform does not fit
EncoderAfterTransform(enc, t, cat_cols) == enc

-----------------------------------------------------------------------------
(* The scaler *)

\* line 23: StandardScaler(), not fitted
UnfittedScaler == [fitted |-> FALSE, features |-> <<>>, n_samples |-> 0,
                   mean |-> <<>>, var |-> <<>>]

\* mutant: the target is scaled too
NumericColsWithPrice ==
    <<"brand", "model", "milage", "int_ext_color", "engine_transmission", "price">>

\* line 155
NumericCols == <<"brand", "model", "milage", "int_ext_color", "engine_transmission">>

Present(values) == SelectSeq(values, LAMBDA c : ~IsNaN(c))

\* the mean of the non-missing values, NaN when there is none
ColMean(values) ==
    LET v == Present(values)
    IN  IF v = <<>> THEN NaN ELSE Mul(Rat(1, Len(v)), SumSeq(v))

\* the (population) variance of the non-missing values
ColVar(values) ==
    LET v == Present(values)
        m == ColMean(values)
    IN  IF v = <<>> THEN NaN
        ELSE Mul(Rat(1, Len(v)),
                 SumSeq([i \in 1..Len(v) |-> Mul(Sub(v[i], m), Sub(v[i], m))]))

\* df[cols] of a missing column is a KeyError, before the scaler is touched
SelectRaises(t, cols) == ~(Range(cols) \subseteq ColSet(t))

\* fit of a table without rows is a ValueError, after fit has reset the scaler
FitRaises(t) == NRows(t) = 0

FitScaler(t, cols) ==
    [fitted |-> TRUE, features |-> cols, n_samples |-> NRows(t),
     mean |-> [j \in 1..Len(cols) |-> ColMean(Column(t, cols[j]))],
     var  |-> [j \in 1..Len(cols) |-> ColVar(Column(t, cols[j]))]]

\* (x - mean) / scale, with scale = sqrt(var), and 1 where var = 0: the square
\* of the result is the rational (x - mean)^2 / var
Standardise(x, mean, var) ==
    LET e == Sub(x, mean)
    IN  IF IsNaN(e) \/ IsNaN(var) THEN NaN
        ELSE IF var.n = 0 THEN e
        ELSE LET q == Rat(e.n * e.n * var.d, e.d * e.d * var.n)
             IN  [k |-> "sqrt", n |-> IF e.n < 0 THEN -q.n ELSE q.n, d |-> q.d]

\* line 156: df.loc[:, cols] = scaler.transform(df[cols])
ScaleColumns(sc, t, cols) ==
    [cols  |-> t.cols,
     dtype |-> t.dtype,
     index |-> t.index,
     rows  |-> [i \in 1..NRows(t) |->
                   [c \in ColSet(t) |->
                       IF c \in Range(cols)
                       THEN LET j == ColPos([cols |-> cols], c)
                            IN  Standardise(t.rows[i][c], sc.mean[j], sc.var[j])
                       ELSE t.rows[i][c]]]]

\* df[target_col]
SeriesOf(t, c) == [name |-> c, index |-> t.index, values |-> Column(t, c)]

-----------------------------------------------------------------------------
(* The tables a caller passes *)

\* the table with the given columns whose i-th row is rows[i] (a function on
\* at least these columns), under a RangeIndex
MakeTable(cols, dtype, rows) ==
    [cols  |-> cols,
     dtype |-> [c \in Range(cols) |-> dtype[c]],
     index |-> RangeIndex(Len(rows)),
     rows  |-> [i \in 1..Len(rows) |-> [c \in Range(cols) |-> rows[i][c]]]]

SeqsUpTo(S, n) == UNION {[1..m -> S] : m \in 0..n}

\* the columns of the used-car data set the pipeline reads
CarCols == <<"brand", "model", "model_year", "milage", "engine", "transmission",
             "ext_col", "int_col", "price">>

CarObjectCols == {"brand", "model", "engine", "transmission", "ext_col", "int_col"}

CarDtype == [c \in Range(CarCols) \cup {"id"} |->
                IF c \in CarObjectCols THEN "object" ELSE "float"]

CarRow(brand, milage, price) ==
    [id |-> Num(7), brand |-> brand, model |-> Str("a"), model_year |-> Num(2020),
     milage |-> milage, engine |-> Str("b"), transmission |-> Str("b"),
     ext_col |-> Str("b"), int_col |-> Str("a"), price |-> price]

CarRows ==
    <<CarRow(Str("b"), Num(8), Num(0)), CarRow(Str("a"), Num(0), Num(0)),
      CarRow(NaN, NaN, Num(0)), CarRow(Str("a"), Num(0), Num(8))>>

\* the sequences of at most n rows of pool, in the pool's order (a table of
\* the pipeline is one of these: which rows it has, each how often)
RowsInOrder(pool, n) ==
    UNION {{[i \in 1..m |-> pool[f[i]]] :
               f \in {g \in [1..m -> 1..Len(pool)] : \A i \in 1..(m - 1) : g[i] <= g[i + 1]}}
           : m \in 0..n}

\* a row of a table whose categorical columns are numbers already
NumericRow(r) == [c \in DOMAIN r |-> IF r[c].k = "str" THEN Num(r[c].n) ELSE r[c]]

FloatDtype == [c \in Range(CarCols) \cup {"id"} |-> "float"]

\* the tables of at most n rows passed to the pipeline: with an id, without,
\* without model_year, without price, and with every column numeric
PipelineTables(n) ==
    UNION {{MakeTable(<<"id">> \o CarCols, CarDtype, rows),
            MakeTable(CarCols, CarDtype, rows),
            MakeTable(SelectSeq(CarCols, LAMBDA c : c # "model_year"), CarDtype, rows),
            MakeTable(SelectSeq(CarCols, LAMBDA c : c # "price"), CarDtype, rows),
            MakeTable(CarCols, FloatDtype, [i \in DOMAIN rows |-> NumericRow(rows[i])])}
           : rows \in RowsInOrder(CarRows, n)}

\* The persisted encoders joblib.load may return: fitted on the six
\* categorical columns, on data in which every value of this model occurred,
\* or on data whose brand was always "a".
LoadedEncoders ==
    {FittedEncoder([j \in 1..6 |-> {StrOf("a"), StrOf("b"), StrOf("nan")}]),
     FittedEncoder([j \in 1..6 |-> IF j = 1 THEN {StrOf("a")} ELSE {StrOf("a"), StrOf("b")}])}

ImputeTables(n) ==
    LET rows == {[brand |-> b, milage |-> m, price |-> q] :
                    b \in {Str("a"), Str("b"), NaN}, m \in {Num(0), Num(2), NaN},
                    q \in {Num(1), NaN}}
        dt   == [brand |-> "object", milage |-> "float", price |-> "float"]
    IN  UNION {{MakeTable(<<"brand", "milage", "price">>, dt, r),
                MakeTable(<<"milage", "price">>, dt, r)} : r \in SeqsUpTo(rows, n)}

OutlierTables(n) ==
    LET rows == {[milage |-> m, price |-> q] :
                    m \in {Num(0), Num(1), Num(8), NaN}, q \in {Num(0), Num(8)}}
        dt   == [milage |-> "float", price |-> "float"]
    IN  {MakeTable(<<"milage", "price">>, dt, r) : r \in SeqsUpTo(rows, n)}

FeatureTables(n) ==
    LET rows == {[engine |-> e, transmission |-> t, int_col |-> Num(1), ext_col |-> Num(7),
                  model_year |-> my, milage |-> Num(0), car_age |-> Num(3)] :
                    e \in {Num(2), Num(3)}, t \in {Num(5), NaN},
                    my \in {Num(2020), Num(2024), NaN}}
        all  == <<"engine", "milage", "transmission", "int_col", "ext_col", "model_year">>
        dt   == [c \in Range(all) \cup {"car_age"} |-> "float"]
        lay  == {all, <<"car_age">> \o all} \cup
                {SelectSeq(all, LAMBDA c : c # x) : x \in SourceCols}
    IN  UNION {{MakeTable(l, dt, r) : l \in lay} : r \in SeqsUpTo(rows, n)}

-----------------------------------------------------------------------------
(* The state machine *)

\* line 120: n_neighbors=25
PipelineNeighbors == 25

\* line 25: n_neighbors: int = 5
DefaultNeighbors == 5

\* __init__: the persisted encoder, or the fallback when loading it fails
ConstructedEncoders == LoadedEncoders \cup {FallbackEncoder}

\* an entry of trace: the stage, its column and neighbour count where it has
\* one, and the table it left in df_processed
Stage(name, col, k, out) == [stage |-> name, col |-> col, k |-> k, out |-> out]

NoCall ==
    /\ pc = "idle"
    /\ method = ""
    /\ is_training = FALSE
    /\ scale_features = FALSE
    /\ target_col = ""
    /\ df_processed = EmptyTable
    /\ outcome = "none"
    /\ result = EmptyTable
    /\ X = EmptyTable
    /\ y = EmptySeries
    /\ column = ""
    /\ n_neighbors = 0
    /\ trace = <<>>
    /\ fits = 0

Init ==
    /\ ordinal_encoder \in ConstructedEncoders
    /\ scaler = UnfittedScaler
    /\ df \in PipelineTables(MaxRows)
    /\ NoCall

\* the exception leaves the call; the object keeps its fields
Raise ==
    /\ pc' = "done"
    /\ outcome' = "raised"
    /\ UNCHANGED <<ordinal_encoder, scaler, df, method, is_training, scale_features,
                   target_col, df_processed, result, X, y, column, n_neighbors,
                   trace, fits>>

\* preprocess_data(df, is_training), line 113: df_processed = df.copy()
CallPreprocessData(training) ==
    /\ pc = "idle"
    /\ method' = "preprocess_data"
    /\ is_training' = training
    /\ df_processed' = df
    /\ pc' = "pp_drop_id"
    /\ UNCHANGED <<ordinal_encoder, scaler, df, scale_features, target_col, outcome,
                   result, X, y, column, n_neighbors, trace, fits>>

\* prepare_for_training(df, target_col, scale_features), line 151: it calls
\* preprocess_data(df, is_training=True)
CallPrepareForTraining(target, scale) ==
    /\ pc = "idle"
    /\ method' = "prepare_for_training"
    /\ target_col' = target
    /\ scale_features' = scale
    /\ is_training' = TRUE
    /\ df_processed' = df
    /\ pc' = "pp_drop_id"
    /\ UNCHANGED <<ordinal_encoder, scaler, df, outcome, result, X, y, column,
                   n_neighbors, trace, fits>>

\* lines 116-117
DropId ==
    /\ pc = "pp_drop_id"
    /\ IF "id" \in ColSet(df_processed)
       THEN /\ df_processed' = DropColumns(df_processed, {"id"})
            /\ trace' = Append(trace, Stage("drop", "id", 0, df_processed'))
       ELSE UNCHANGED <<df_processed, trace>>
    /\ pc' = "pp_impute"
    /\ UNCHANGED <<ordinal_encoder, scaler, df, method, is_training, scale_features,
                   target_col, outcome, result, X, y, column, n_neighbors, fits>>

\* line 120
Impute ==
    /\ pc = "pp_impute"
    /\ IF KnnImputeRaises(df_processed)
       THEN Raise
       ELSE /\ \E t \in KnnImpute(df_processed, PipelineNeighbors) : df_processed' = t
            /\ trace' = Append(trace, Stage("knn_impute", "", PipelineNeighbors, df_processed'))
            /\ pc' = "pp_encode"
            /\ UNCHANGED <<ordinal_encoder, scaler, df, method, is_training,
                           scale_features, target_col, outcome, result, X, y, column,
                           n_neighbors, fits>>

\* lines 123-125
Encode ==
    /\ pc = "pp_encode"
    /\ LET cat_cols == ObjectCols(df_processed)
       IN  IF Len(cat_cols) > 0
           THEN IF TransformRaises(ordinal_encoder, df_processed, cat_cols)
                THEN Raise
                ELSE /\ df_processed' = EncodeColumns(ordinal_encoder, df_processed, cat_cols)
                     /\ ordinal_encoder' =
                            EncoderAfterTransform(ordinal_encoder, df_processed, cat_cols)
                     /\ trace' = Append(trace, Stage("encode", "", 0, df_processed'))
                     /\ pc' = "pp_features"
                     /\ UNCHANGED <<scaler, df, method, is_training, scale_features,
                                    target_col, outcome, result, X, y, column,
                                    n_neighbors, fits>>
           ELSE /\ pc' = "pp_features"
                /\ UNCHANGED <<ordinal_encoder, scaler, df, method, is_training,
                               scale_features, target_col, df_processed, outcome,
                               result, X, y, column, n_neighbors, trace, fits>>

\* mutant: the outlier filter runs in inference too
AfterFeaturesAlways(training) == "pp_out_milage"

\* line 131: if is_training
AfterFeatures(training) == IF training THEN "pp_out_milage" ELSE "pp_return"

\* line 128, and the test of line 131
Features ==
    /\ pc = "pp_features"
    /\ IF CreateFeaturesRaises(df_processed)
       THEN Raise
       ELSE /\ df_processed' = CreateFeatures(df_processed)
            /\ trace' = Append(trace, Stage("create_features", "", 0, df_processed'))
            /\ pc' = AfterFeatures(is_training)
            /\ UNCHANGED <<ordinal_encoder, scaler, df, method, is_training,
                           scale_features, target_col, outcome, result, X, y, column,
                           n_neighbors, fits>>

\* one outlier stage of preprocess_data: filter on col, go on at next
OutlierStage(col, next) ==
    IF RemoveOutliersRaises(df_processed, col)
    THEN Raise
    ELSE /\ df_processed' = RemoveOutliersIqr(df_processed, col)
         /\ trace' = Append(trace, Stage("remove_outliers_iqr", col, 0, df_processed'))
         /\ pc' = next
         /\ UNCHANGED <<ordinal_encoder, scaler, df, method, is_training,
                        scale_features, target_col, outcome, result, X, y, column,
                        n_neighbors, fits>>

\* mutant: the first filter is on price as well
FirstOutlierColPrice == "price"

\* line 132
FirstOutlierCol == "milage"

\* line 133
SecondOutlierCol == "price"

\* line 132
OutliersMilage == pc = "pp_out_milage" /\ OutlierStage(FirstOutlierCol, "pp_out_price")

\* mutant: the price filter takes its quartiles from the table as it was
\* before the milage filter
OutliersPriceStale ==
    /\ pc = "pp_out_price"
    /\ LET before == trace[Len(trace) - 1].out
           v      == Column(before, "price")
       IN  df_processed' =
               FilterRows(df_processed,
                          {i \in 1..NRows(df_processed) :
                              /\ Ge(df_processed.rows[i]["price"], LowerBound(v))
                              /\ Le(df_processed.rows[i]["price"], UpperBound(v))})
    /\ trace' = Append(trace, Stage("remove_outliers_iqr", "price", 0, df_processed'))
    /\ pc' = "pp_reset"
    /\ UNCHANGED <<ordinal_encoder, scaler, df, method, is_training, scale_features,
                   target_col, outcome, result, X, y, column, n_neighbors, fits>>

\* line 133
OutliersPrice == pc = "pp_out_price" /\ OutlierStage(SecondOutlierCol, "pp_reset")

\* line 134: reset_index(drop=True, inplace=True)
ResetIndex ==
    /\ pc = "pp_reset"
    /\ df_processed' = [df_processed EXCEPT !.index = RangeIndex(NRows(df_processed))]
    /\ trace' = Append(trace, Stage("reset_index", "", 0, df_processed'))
    /\ pc' = "pp_return"
    /\ UNCHANGED <<ordinal_encoder, scaler, df, method, is_training, scale_features,
                   target_col, outcome, result, X, y, column, n_neighbors, fits>>

\* line 136: back to the caller, or to line 154 of prepare_for_training
PreprocessReturn ==
    /\ pc = "pp_return"
    /\ IF method = "preprocess_data"
       THEN /\ result' = df_processed
            /\ outcome' = "returned"
            /\ pc' = "done"
       ELSE /\ pc' = "pt_scale"
            /\ UNCHANGED <<result, outcome>>
    /\ UNCHANGED <<ordinal_encoder, scaler, df, method, is_training, scale_features,
                   target_col, df_processed, X, y, column, n_neighbors, trace, fits>>

\* lines 154-156
Scale ==
    /\ pc = "pt_scale"
    /\ IF scale_features
       THEN IF SelectRaises(df_processed, NumericCols)
            THEN Raise
            ELSE IF FitRaises(df_processed)
            THEN /\ scaler' = UnfittedScaler
                 /\ pc' = "done"
                 /\ outcome' = "raised"
                 /\ UNCHANGED <<ordinal_encoder, df, method, is_training, scale_features,
                                target_col, df_processed, result, X, y, column,
                                n_neighbors, trace, fits>>
            ELSE /\ scaler' = FitScaler(df_processed, NumericCols)
                 /\ df_processed' = ScaleColumns(scaler', df_processed, NumericCols)
                 /\ fits' = fits + 1
                 /\ trace' = Append(trace, Stage("scale", "", 0, df_processed'))
                 /\ pc' = "pt_split"
                 /\ UNCHANGED <<ordinal_encoder, df, method, is_training, scale_features,
                                target_col, outcome, result, X, y, column, n_neighbors>>
       ELSE /\ pc' = "pt_split"
            /\ UNCHANGED <<ordinal_encoder, scaler, df, method, is_training,
                           scale_features, target_col, df_processed, outcome, result,
                           X, y, column, n_neighbors, trace, fits>>

\* mutant: X keeps the target and loses milage
FeaturesOfWrongDrop(t, target) == DropColumns(t, {"milage"})

\* line 159: df_processed.drop(columns=[target_col])
FeaturesOf(t, target) == DropColumns(t, {target})

\* lines 159-162; drop of an absent column is a KeyError
Split ==
    /\ pc = "pt_split"
    /\ IF target_col \notin ColSet(df_processed)
       THEN Raise
       ELSE /\ X' = FeaturesOf(df_processed, target_col)
            /\ y' = SeriesOf(df_processed, target_col)
            /\ trace' = Append(trace, Stage("split", target_col, 0, df_processed))
            /\ outcome' = "returned"
            /\ pc' = "done"
            /\ UNCHANGED <<ordinal_encoder, scaler, df, method, is_training,
                           scale_features, target_col, df_processed, result, column,
                           n_neighbors, fits>>

\* the call is over: its locals are gone, the object's fields stay
Finish ==
    /\ pc = "done"
    /\ pc' = "idle"
    /\ method' = ""
    /\ is_training' = FALSE
    /\ scale_features' = FALSE
    /\ target_col' = ""
    /\ df_processed' = EmptyTable
    /\ outcome' = "none"
    /\ result' = EmptyTable
    /\ X' = EmptyTable
    /\ y' = EmptySeries
    /\ column' = ""
    /\ n_neighbors' = 0
    /\ trace' = <<>>
    /\ fits' = 0
    /\ UNCHANGED <<ordinal_encoder, scaler, df>>

\* the target columns callers pass: the default, another column, an absent one
Targets == {"price", "car_age", "sale"}

Next ==
    \/ \E training \in BOOLEAN : CallPreprocessData(training)
    \/ \E target \in Targets, scale \in BOOLEAN : CallPrepareForTraining(target, scale)
    \/ DropId
    \/ Impute
    \/ Encode
    \/ Features
    \/ OutliersMilage
    \/ OutliersPrice
    \/ ResetIndex
    \/ PreprocessReturn
    \/ Scale
    \/ Split
    \/ Finish

Spec == Init /\ [][Next]_vars

-----------------------------------------------------------------------------
(* The methods called on their own *)

\* knn_impute(df, k)
KnnImputeCall(k) ==
    /\ pc = "idle"
    /\ method' = "knn_impute"
    /\ n_neighbors' = k
    /\ pc' = "done"
    /\ IF KnnImputeRaises(df)
       THEN outcome' = "raised" /\ result' = EmptyTable
       ELSE outcome' = "returned" /\ \E t \in KnnImpute(df, k) : result' = t
    /\ UNCHANGED <<ordinal_encoder, scaler, df, is_training, scale_features, target_col,
                   df_processed, X, y, column, trace, fits>>

\* remove_outliers_iqr(df, col)
RemoveOutliersCall(col) ==
    /\ pc = "idle"
    /\ method' = "remove_outliers_iqr"
    /\ column' = col
    /\ pc' = "done"
    /\ IF RemoveOutliersRaises(df, col)
       THEN outcome' = "raised" /\ result' = EmptyTable
       ELSE outcome' = "returned" /\ result' = RemoveOutliersIqr(df, col)
    /\ UNCHANGED <<ordinal_encoder, scaler, df, is_training, scale_features, target_col,
                   df_processed, X, y, n_neighbors, trace, fits>>

\* create_features(df)
CreateFeaturesCall ==
    /\ pc = "idle"
    /\ method' = "create_features"
    /\ pc' = "done"
    /\ IF CreateFeaturesRaises(df)
       THEN outcome' = "raised" /\ result' = EmptyTable
       ELSE outcome' = "returned" /\ result' = CreateFeatures(df)
    /\ UNCHANGED <<ordinal_encoder, scaler, df, is_training, scale_features, target_col,
                   df_processed, X, y, column, n_neighbors, trace, fits>>

InitMethod(tables) ==
    /\ ordinal_encoder = FallbackEncoder
    /\ scaler = UnfittedScaler
    /\ df \in tables
    /\ NoCall

InitImpute == InitMethod(ImputeTables(MaxRowsImpute))

NextImpute == (\E k \in {1, 2, DefaultNeighbors} : KnnImputeCall(k)) \/ Finish

SpecImpute == InitImpute /\ [][NextImpute]_vars

InitOutliers == InitMethod(OutlierTables(MaxRowsOutliers))

NextOutliers == (\E col \in {"milage", "price", "sale"} : RemoveOutliersCall(col)) \/ Finish

SpecOutliers == InitOutliers /\ [][NextOutliers]_vars

InitFeatures == InitMethod(FeatureTables(MaxRowsFeatures))

NextFeatures == CreateFeaturesCall \/ Finish

SpecFeatures == InitFeatures /\ [][NextFeatures]_vars

-----------------------------------------------------------------------------
(* Properties *)

Returned(m) == pc = "done" /\ method = m /\ outcome = "returned"

\* the position in t of the row labelled l
RowOf(t, l) == CHOOSE i \in 1..NRows(t) : t.index[i] = l

\* sub is made of rows of t: its labels are labels of t, in t's order, and
\* each of its rows is the row of t with that label, cell for cell
SubTable(sub, t) ==
    /\ sub.cols = t.cols
    /\ sub.dtype = t.dtype
    /\ Len(sub.index) = NRows(sub)
    /\ \A k \in 1..NRows(sub) :
          /\ \E i \in 1..NRows(t) : t.index[i] = sub.index[k]
          /\ sub.rows[k] = t.rows[RowOf(t, sub.index[k])]
    /\ \A k \in 1..(NRows(sub) - 1) :
          RowOf(t, sub.index[k]) < RowOf(t, sub.index[k + 1])

\* c lies in the closed interval [Q1 - 1.5 IQR, Q3 + 1.5 IQR] of the quartiles
\* Q1, Q3 of values: with IQR = Q3 - Q1, 2c >= 5 Q1 - 3 Q3 and 2c <= 5 Q3 - 3 Q1
WithinIqr(c, values) ==
    LET Q1 == Quantile(values, 1, 4)
        Q3 == Quantile(values, 3, 4)
    IN  /\ ~IsNaN(c) /\ ~IsNaN(Q1)
        /\ Le(Sub(Mul(Num(5), Q1), Mul(Num(3), Q3)), Mul(Num(2), c))
        /\ Le(Mul(Num(2), c), Sub(Mul(Num(5), Q3), Mul(Num(3), Q1)))

\* C3: knn_impute returns, for every table (also one whose string columns
\* have missing cells), a table with the same columns in the same order and
\* no missing cell.
C3_NoMissingAfterImpute ==
    Returned("knn_impute") =>
        /\ result.cols = df.cols
        /\ \A i \in 1..NRows(result) : \A c \in ColSet(result) : ~IsNaN(result.rows[i][c])

\* C4: remove_outliers_iqr(df, column) returns rows of df, unaltered and in
\* order, namely exactly those whose value in column lies in
\* [Q1 - 1.5 IQR, Q3 + 1.5 IQR], the quartiles taken over df; so it returns
\* no more rows than df has.
C4_OutliersFiltered ==
    Returned("remove_outliers_iqr") =>
        /\ SubTable(result, df)
        /\ NRows(result) <= NRows(df)
        /\ \A i \in 1..NRows(df) :
              (\E k \in 1..NRows(result) : result.index[k] = df.index[i])
                  <=> WithinIqr(df.rows[i][column], Column(df, column))

\* C4 witness: a call that removed a row that has a value and kept another
C4_Witness ==
    /\ Returned("remove_outliers_iqr")
    /\ NRows(result) > 0
    /\ \E i \in 1..NRows(df) :
          /\ ~IsNaN(df.rows[i][column])
          /\ \A k \in 1..NRows(result) : result.index[k] # df.index[i]

\* r is the product of the numbers a and b (NaN as soon as one is missing)
IsProduct(r, a, b) ==
    IF IsNaN(a) \/ IsNaN(b) THEN IsNaN(r)
    ELSE r.k = "num" /\ r.n * a.d * b.d = a.n * b.n * r.d

\* r is the number a minus the number b
IsDifference(r, a, b) ==
    IF IsNaN(a) \/ IsNaN(b) THEN IsNaN(r)
    ELSE r.k = "num" /\ r.n * a.d * b.d = (a.n * b.d - b.n * a.d) * r.d

\* C6: create_features raises exactly when one of engine, transmission,
\* int_col, ext_col, model_year is missing; otherwise it returns the table
\* without these five and with engine_transmission = engine * transmission,
\* int_ext_color = int_col * ext_col and car_age = 2024 - model_year, every
\* other column being as it was.
C6_FeaturesComposed ==
    LET five  == {"engine", "transmission", "int_col", "ext_col", "model_year"}
        three == {"engine_transmission", "int_ext_color", "car_age"}
    IN  (pc = "done" /\ method = "create_features") =>
            /\ outcome = "raised" <=> ~(five \subseteq ColSet(df))
            /\ outcome = "returned" =>
                  /\ ColSet(result) = (ColSet(df) \ five) \cup three
                  /\ Len(result.cols) = Cardinality(ColSet(result))
                  /\ result.index = df.index
                  /\ NRows(result) = NRows(df)
                  /\ \A i \in 1..NRows(df) :
                        /\ IsProduct(result.rows[i]["engine_transmission"],
                                     df.rows[i]["engine"], df.rows[i]["transmission"])
                        /\ IsProduct(result.rows[i]["int_ext_color"],
                                     df.rows[i]["int_col"], df.rows[i]["ext_col"])
                        /\ IsDifference(result.rows[i]["car_age"],
                                        Num(2024), df.rows[i]["model_year"])
                        /\ \A c \in ColSet(df) \ (five \cup three) :
                              result.rows[i][c] = df.rows[i][c]
                  /\ \A c \in ColSet(df) \ (five \cup three) : result.dtype[c] = df.dtype[c]
                  /\ SelectSeq(result.cols, LAMBDA c : c \in ColSet(df)) =
                        SelectSeq(df.cols, LAMBDA c : c \notin five)

\* C6 witness: a call on a table with rows that composed a product and an age
C6_Witness ==
    /\ Returned("create_features")
    /\ \E i \in 1..NRows(result) :
          /\ result.rows[i]["engine_transmission"] = Num(15)
          /\ result.rows[i]["car_age"] = Num(4)
          /\ result.rows[i]["milage"] = Num(0)

Inference == method = "preprocess_data" /\ ~is_training

HasStage(name) == \E p \in 1..Len(trace) : trace[p].stage = name

\* the table stage name left (the stage has run)
StageOut(name) == trace[CHOOSE p \in 1..Len(trace) : trace[p].stage = name].out

\* the place of a stage in the order of the pipeline; 0 for anything else
StageRank(e) ==
    CASE e.stage = "drop" /\ e.col = "id" -> 1
      [] e.stage = "knn_impute" /\ e.k = 25 -> 2
      [] e.stage = "encode" -> 3
      [] e.stage = "create_features" -> 4
      [] e.stage = "remove_outliers_iqr" /\ e.col = "milage" -> 5
      [] e.stage = "remove_outliers_iqr" /\ e.col = "price" -> 6
      [] e.stage = "reset_index" -> 7
      [] e.stage = "scale" -> 8
      [] e.stage = "split" -> 9
      [] OTHER -> 0

\* C1: a call of prepare_for_training runs its stages in the order drop id,
\* impute (25 neighbours), encode, compose features, outliers on milage,
\* outliers on price, reset index, scale, split, each at most once; a call
\* that returns has run all of them, but the drop only when there is an id,
\* the encoding only when the imputed table has categorical columns, and the
\* scaling only when scale_features is true.
C1_StageOrder ==
    method = "prepare_for_training" =>
        /\ \A p \in 1..Len(trace) : StageRank(trace[p]) > 0
        /\ \A p \in 1..(Len(trace) - 1) : StageRank(trace[p]) < StageRank(trace[p + 1])
        /\ Returned("prepare_for_training") =>
              {StageRank(trace[p]) : p \in 1..Len(trace)} =
                  {2, 4, 5, 6, 7, 9}
                  \cup (IF "id" \in ColSet(df) THEN {1} ELSE {})
                  \cup (IF ObjectCols(StageOut("knn_impute")) # <<>> THEN {3} ELSE {})
                  \cup (IF scale_features THEN {8} ELSE {})

\* C1 witness: a call that returned after all nine stages
C1_Witness == Returned("prepare_for_training") /\ Len(trace) = 9

\* C2: preprocess_data with is_training=False runs neither the outlier filter
\* nor the index reset and returns as many rows as it was given; with
\* is_training=True the number of rows never grows.
C2_RowCount ==
    /\ (Inference /\ pc # "idle") =>
          /\ \A p \in 1..Len(trace) :
                trace[p].stage \notin {"remove_outliers_iqr", "reset_index"}
          /\ NRows(df_processed) = NRows(df)
          /\ Returned("preprocess_data") => NRows(result) = NRows(df)
    /\ (pc # "idle" /\ is_training) =>
          /\ NRows(df_processed) <= NRows(df)
          /\ \A p \in 1..Len(trace) : NRows(trace[p].out) <= NRows(df)
          /\ Returned("preprocess_data") => NRows(result) <= NRows(df)
          /\ Returned("prepare_for_training") => NRows(X) <= NRows(df)

\* C2 witness: an inference call returned a table that still has a milage
\* outlier
C2_Witness ==
    /\ Returned("preprocess_data")
    /\ ~is_training
    /\ \E i \in 1..NRows(result) :
          /\ ~IsNaN(result.rows[i]["milage"])
          /\ ~WithinIqr(result.rows[i]["milage"], Column(result, "milage"))

\* the positions of the rows of t whose milage is within the IQR bounds of t
MilageKept(t) ==
    {i \in 1..NRows(t) : WithinIqr(t.rows[i]["milage"], Column(t, "milage"))}

\* the positions, among keep, of the rows of t whose price is within the IQR
\* bounds of the prices of the rows keep
PriceKeptAmong(t, keep) ==
    {i \in keep : WithinIqr(t.rows[i]["price"], SelectIdx(Column(t, "price"), keep))}

\* C5: in training the table that reaches the index reset consists of the
\* rows of the composed table whose milage is within the bounds of the
\* composed table's milage quartiles and whose price is within the bounds of
\* the price quartiles of the rows that passed the milage filter; the milage
\* filter ran first.
C5_PriceAfterMilage ==
    pc = "pp_reset" =>
        LET composed == StageOut("create_features")
            keep     == PriceKeptAmong(composed, MilageKept(composed))
        IN  /\ SubTable(df_processed, composed)
            /\ {df_processed.index[k] : k \in 1..NRows(df_processed)} =
                   {composed.index[i] : i \in keep}
            /\ trace[Len(trace) - 1].stage = "remove_outliers_iqr"
            /\ trace[Len(trace) - 1].col = "milage"
            /\ trace[Len(trace)].stage = "remove_outliers_iqr"
            /\ trace[Len(trace)].col = "price"

\* C5 witness: the rows that reach the index reset are neither those the
\* opposite order keeps nor those that pass both filters of the unfiltered
\* table
C5_Witness ==
    /\ pc = "pp_reset"
    /\ LET composed == StageOut("create_features")
           all      == 1..NRows(composed)
           got      == {df_processed.index[k] : k \in 1..NRows(df_processed)}
           priceFirst  == {i \in PriceKeptAmong(composed, all) :
                              WithinIqr(composed.rows[i]["milage"],
                                        SelectIdx(Column(composed, "milage"),
                                                  PriceKeptAmong(composed, all)))}
           independent == MilageKept(composed) \cap PriceKeptAmong(composed, all)
       IN  /\ got # {composed.index[i] : i \in priceFirst}
           /\ got # {composed.index[i] : i \in independent}

\* the encoding stage ended the call with an error
EncodeRaised ==
    /\ pc = "done"
    /\ outcome = "raised"
    /\ trace # <<>>
    /\ trace[Len(trace)].stage = "knn_impute"
    /\ ObjectCols(df_processed) # <<>>

\* string c was seen when column j of the encoder was fit
Seen(j, c) ==
    /\ ordinal_encoder.fitted
    /\ j \in DOMAIN ordinal_encoder.categories
    /\ c.n \in ordinal_encoder.categories[j]

\* where the encoding has run, every cell whose string the encoder never saw
\* holds -1 afterwards
UnseenAreMinusOne ==
    \A p \in 2..Len(trace) :
        trace[p].stage = "encode" =>
            LET before   == trace[p - 1].out
                cat_cols == ObjectCols(before)
            IN  \A j \in 1..Len(cat_cols) : \A i \in 1..NRows(before) :
                    ~Seen(j, AsStr(before.rows[i][cat_cols[j]]))
                        => trace[p].out.rows[i][cat_cols[j]] = Num(-1)

\* C7 as stated: in inference an unseen categorical value is encoded as -1
\* and the encoding raises no error, whichever encoder the constructor left
\* (the loaded one or the fallback).
C7_UnseenNeverRaises == Inference => (~EncodeRaised /\ UnseenAreMinusOne)

\* C7 amended: in inference, an encoder that is fitted, on as many columns as
\* the imputed table has categorical ones, raises no error and encodes every
\* unseen value as -1; the unfitted fallback encoder raises at the encoding
\* stage whenever the imputed table has a categorical column.
C7_FittedUnseenMinusOne ==
    Inference =>
        /\ UnseenAreMinusOne
        /\ (HasStage("knn_impute") /\ ordinal_encoder.fitted
              /\ Len(ObjectCols(StageOut("knn_impute"))) = Len(ordinal_encoder.categories))
              => ~EncodeRaised
        /\ (pc \notin {"pp_encode", "idle"} /\ HasStage("knn_impute")
              /\ ~ordinal_encoder.fitted /\ ObjectCols(StageOut("knn_impute")) # <<>>)
              => EncodeRaised

\* C7 witness: an inference call returned after encoding a value the encoder
\* had not seen
C7_Witness ==
    /\ Returned("preprocess_data")
    /\ ~is_training
    /\ \E p \in 2..Len(trace) :
          /\ trace[p].stage = "encode"
          /\ \E i \in 1..NRows(trace[p].out) :
                /\ ~Seen(1, AsStr(trace[p - 1].out.rows[i]["brand"]))
                /\ trace[p].out.rows[i]["brand"] = Num(-1)

\* C8: no step of an inference call changes the encoder.
C8_EncoderUnchanged == [][Inference => ordinal_encoder' = ordinal_encoder]_vars

\* C8 witness: an inference call that encoded has returned, on an object that
\* served a training call before
C8_Witness ==
    /\ Returned("preprocess_data")
    /\ ~is_training
    /\ HasStage("encode")
    /\ scaler.fitted

\* C9: prepare_for_training returns X, the preprocessed table without the
\* target column (columns in order, rows and labels as in the table), and y,
\* the target column of that table under the same labels.
C9_SplitXy ==
    Returned("prepare_for_training") =>
        /\ target_col \notin ColSet(X)
        /\ X.cols = SelectSeq(df_processed.cols, LAMBDA c : c # target_col)
        /\ ColSet(X) = ColSet(df_processed) \ {target_col}
        /\ X.index = df_processed.index
        /\ NRows(X) = NRows(df_processed)
        /\ \A i \in 1..NRows(X) : \A c \in ColSet(X) : X.rows[i][c] = df_processed.rows[i][c]
        /\ y.name = target_col
        /\ y.index = X.index
        /\ Len(y.values) = NRows(X)
        /\ \A i \in 1..NRows(X) : y.values[i] = df_processed.rows[i][target_col]

\* C9 witness: a call that returned rows, split on a target that is not the
\* default
C9_Witness ==
    /\ Returned("prepare_for_training")
    /\ target_col = "car_age"
    /\ NRows(X) > 1
    /\ "price" \in ColSet(X)

\* z is (x - mean)/sqrt(var), or x - mean where var = 0
IsStandardised(z, x, mean, var) ==
    IF IsNaN(x) \/ IsNaN(mean) \/ IsNaN(var) THEN IsNaN(z)
    ELSE LET e == Sub(x, mean)
         IN  IF var.n = 0 THEN z = e
             ELSE /\ z.k = "sqrt"
                  /\ (z.n < 0) = (e.n < 0)
                  /\ Abs(z.n) * var.n * e.d * e.d = e.n * e.n * var.d * z.d

\* sc holds the mean and the variance of column c of t at position j
IsFitOf(sc, j, t, c) ==
    LET v == Present(Column(t, c))
        n == Len(v)
    IN  /\ sc.features[j] = c
        /\ IF n = 0 THEN IsNaN(sc.mean[j]) /\ IsNaN(sc.var[j])
           ELSE /\ Mul(Num(n), sc.mean[j]) = SumSeq(v)
                /\ Mul(Num(n), sc.var[j]) =
                       SumSeq([i \in 1..n |-> Mul(Sub(v[i], sc.mean[j]), Sub(v[i], sc.mean[j]))])

\* C10: the scaler changes only in the scaling step of prepare_for_training
\* with scale_features=True, at most once per call; a call that scaled has
\* fit it on brand, model, milage, int_ext_color, engine_transmission of the
\* rows left after outlier removal and standardised these five columns and no
\* other; no other call contains a scaling stage.
C10_ScalerFrame ==
    [][/\ scaler' # scaler =>
             (method = "prepare_for_training" /\ scale_features /\ pc = "pt_scale" /\ fits = 0)
       /\ fits <= 1
       /\ HasStage("scale") <=>
             (method = "prepare_for_training" /\ scale_features /\ fits = 1)
       /\ HasStage("scale") =>
             LET five   == {"brand", "model", "milage", "int_ext_color", "engine_transmission"}
                 before == StageOut("reset_index")
                 after  == StageOut("scale")
             IN  /\ Len(scaler.features) = 5
                 /\ Range(scaler.features) = five
                 /\ scaler.n_samples = NRows(before)
                 /\ \A j \in 1..5 : IsFitOf(scaler, j, before, scaler.features[j])
                 /\ after.cols = before.cols /\ after.index = before.index
                 /\ \A i \in 1..NRows(before) :
                       /\ \A c \in ColSet(before) \ five :
                             after.rows[i][c] = before.rows[i][c]
                       /\ \A j \in 1..5 :
                             IsStandardised(after.rows[i][scaler.features[j]],
                                            before.rows[i][scaler.features[j]],
                                            scaler.mean[j], scaler.var[j])
       /\ (pc = "done" /\ ~HasStage("scale")) =>
             \A t \in {result, X, df_processed} : \A i \in 1..NRows(t) :
                 \A c \in ColSet(t) : t.rows[i][c].k # "sqrt"
      ]_vars

\* C10 witness: a call returned an X with a standardised milage that is
\* neither 0 nor missing, and left price as it was
C10_Witness ==
    /\ Returned("prepare_for_training")
    /\ scale_features
    /\ \E i \in 1..NRows(X) : X.rows[i]["milage"].k = "sqrt"
    /\ \E i \in 1..NRows(df_processed) : df_processed.rows[i]["price"] = Num(8)

=============================================================================
